---- MODULE Spec2Model ----
(***************************************************************************)
(* The Metronome component of src/src/App.tsx as a state machine.          *)
(*                                                                         *)
(* Time is in milliseconds (the audio clock and the timer clock are one    *)
(* clock, `now`).  Volume, pitch and gain are in tenths (0.5 -> 5,         *)
(* 1.3 -> 13).  A React state update, the re-render it causes and the      *)
(* effects of that render (cleanup of the previous effect, then the new    *)
(* effect) are one step: no timer callback runs between them.              *)
(***************************************************************************)
EXTENDS Integers, Sequences, FiniteSets, TLC

\* ------------------------------------------------------------------ bounds

\* The clock stops advancing here (ms).
MaxTime == 450
\* User events (clicks, slider moves) in one behaviour.
MaxEvents == 3

\* How far the host lets the clock run in one jump (ms): on time for the
\* poll, late by less than scheduleAheadTime, late by more.
Delays == {25, 100, 300}

\* Sampled inputs of the controls.
SliderValues == {40, 240}
PresetBpms == {60}
Meters == {2, 3, 4, 5, 6}
VolumeValues == {10}

\* ------------------------------------------------------- program constants

MinBpm == 40
MaxBpm == 240
InitBpm == 120
InitBeatsPerMeasure == 4
InitVolume == 5
PollMs == 25
AccentFreq == 1000
PlainFreq == 800
AccentPitch == 13
PlainPitch == 10

Null == 0
None == [index |-> -1]

VARIABLES
    \* React state of the component
    bpm, isPlaying, currentBeat, beatsPerMeasure, volume, voiceEnabled,
    \* refs
    audioContextRef, nextNoteTimeRef, timerIdRef, currentBeatRef,
    volumeRef, voiceEnabledRef,
    \* the host: pending timeouts, the speech backend's queue, the clock
    timers, speechQueue, now,
    \* history: the beats the last step emitted, the last beat the running
    \* session emitted before them, the run of the start/stop effect in the
    \* last step (its branch, isPlaying and the cursor index before it),
    \* whether every poll of the session ran less than scheduleAheadTime
    \* after its due time, the cursor index at a meter change no beat has
    \* followed yet, the cursor index at the last stop, and the number of
    \* user events so far
    emitted, lastBeat, step, prompt, meterChangedAt, stoppedAt, events

vars == <<bpm, isPlaying, currentBeat, beatsPerMeasure, volume, voiceEnabled,
          audioContextRef, nextNoteTimeRef, timerIdRef, currentBeatRef,
          volumeRef, voiceEnabledRef, timers, speechQueue, now,
          emitted, lastBeat, step, prompt, meterChangedAt, stoppedAt, events>>

\* ------------------------------------------------------------ pure helpers

\* const scheduleAheadTime = 0.1 (seconds), in ms.
scheduleAheadTime == 100

\* const secondsPerBeat = 60.0 / bpm, in ms (rounded down to the ms).
SecondsPerBeat(b) == 60000 \div b

\* The accent taken for the second beat (a one-based index).
IsAccentOneBased(beat) == beat = 1

\* const isAccent = currentBeatRef.current === 0
IsAccent(beat) == beat = 0

\* The index advanced without the wrap.
NextBeatNoWrap(beat, m) == beat + 1

\* (currentBeatRef.current + 1) % beatsPerMeasure
NextBeat(beat, m) == (beat + 1) % m

\* A handler that stores the tempo it was asked for.
ClampNone(newBpm) == newBpm

\* Math.max(40, Math.min(240, newBpm))
Clamp(newBpm) ==
    LET lo == IF newBpm < MaxBpm THEN newBpm ELSE MaxBpm
    IN  IF lo > MinBpm THEN lo ELSE MinBpm

NoPulse == [freq |-> 0, gain |-> 0]
NoSpeech == [text |-> 0, volume |-> 0, pitch |-> 0]

\* playTick: one oscillator at 1000 Hz (accent) or 800 Hz, gain read from
\* volumeRef at the call; nothing when there is no audio context.
PlayTick(isAccent) ==
    IF ~audioContextRef THEN NoPulse
    ELSE [freq |-> IF isAccent THEN AccentFreq ELSE PlainFreq, gain |-> volumeRef]

\* The utterance speakBeatNumber builds: text beatNumber + 1, volume from
\* volumeRef, pitch 1.3 for beat 0 and 1.0 otherwise.
Utterance(beatNumber) ==
    [text |-> beatNumber + 1,
     volume |-> volumeRef,
     pitch |-> IF beatNumber = 0 THEN AccentPitch ELSE PlainPitch]

\* speakBeatNumber: queues the utterance unless voiceEnabledRef is false.
SpeakBeatNumber(beatNumber, q) ==
    IF ~voiceEnabledRef THEN q ELSE Append(q, Utterance(beatNumber))

\* The record of one emitted beat: the flag handed to playTick and the pulse
\* it made, the utterance speakBeatNumber queued (q to q2) if any, the
\* deadline the beat was scheduled for and the time of the call.
BeatEvent(beat, isAccent, q, q2, deadline) ==
    [index |-> beat,
     accent |-> isAccent,
     pulse |-> PlayTick(isAccent),
     speech |-> IF Len(q2) > Len(q) THEN q2[Len(q2)] ELSE NoSpeech,
     deadline |-> deadline,
     at |-> now]

\* A window that includes its far edge.
DueInclusive(next, currentTime) == next <= currentTime + scheduleAheadTime

\* The look-ahead applied to the wrong side of the comparison.
DueBehind(next, currentTime) == next + scheduleAheadTime < currentTime

\* while (nextNoteTimeRef.current < currentTime + scheduleAheadTime)
Due(next, currentTime) == next < currentTime + scheduleAheadTime

\* A scheduler that emits at most one beat per call (an if for the while).
SchedulerLoopOnce(cb, cm, currentTime, st) ==
    IF Due(st.next, currentTime)
    THEN LET isAccent == IsAccent(st.beat)
             q2 == SpeakBeatNumber(st.beat, st.q)
         IN  [next |-> st.next + SecondsPerBeat(cb),
              beat |-> NextBeat(st.beat, cm),
              pub  |-> st.beat,
              q    |-> q2,
              out  |-> Append(st.out,
                         BeatEvent(st.beat, isAccent, st.q, q2, st.next))]
    ELSE st

\* The scheduler's while loop.  cb and cm are the bpm and beatsPerMeasure the
\* closure captured; st is [next, beat, pub, q, out]: the two cursor refs, the
\* published currentBeat, the speech queue and the beats emitted so far.
RECURSIVE SchedulerLoop(_, _, _, _)
SchedulerLoop(cb, cm, currentTime, st) ==
    IF Due(st.next, currentTime)
    THEN LET isAccent == IsAccent(st.beat)
             q2 == SpeakBeatNumber(st.beat, st.q)
         IN  SchedulerLoop(cb, cm, currentTime,
                [next |-> st.next + SecondsPerBeat(cb),
                 beat |-> NextBeat(st.beat, cm),
                 pub  |-> st.beat,
                 q    |-> q2,
                 out  |-> Append(st.out,
                            BeatEvent(st.beat, isAccent, st.q, q2, st.next))])
    ELSE st

\* window.setTimeout returns a positive id that no pending timer has.
FreshId(ts) ==
    CHOOSE i \in 1..(Cardinality(ts) + 1) :
        /\ \A t \in ts : t.id # i
        /\ \A j \in 1..(i - 1) : \E t \in ts : t.id = j

\* A clearTimeout that cancels nothing.
ClearTimeoutNone(ts, id) == ts

\* clearTimeout(id)
ClearTimeout(ts, id) == {t \in ts : t.id # id}

\* timerIdRef.current = window.setTimeout(scheduler, 25): the timer holds the
\* closure, that is the bpm and beatsPerMeasure of the render that made it.
SetTimeout(ts, id, cb, cm) ==
    ts \cup {[id |-> id, due |-> now + PollMs, bpm |-> cb, beatsPerMeasure |-> cm]}

\* scheduler(): st is [next, beat, pub, q, out, ts, tid].
Scheduler(cb, cm, st) ==
    IF ~audioContextRef THEN st
    ELSE LET r  == SchedulerLoop(cb, cm, now,
                       [next |-> st.next, beat |-> st.beat, pub |-> st.pub,
                        q |-> st.q, out |-> st.out])
             id == FreshId(st.ts)
         IN  [next |-> r.next, beat |-> r.beat, pub |-> r.pub, q |-> r.q,
              out |-> r.out, ts |-> SetTimeout(st.ts, id, cb, cm), tid |-> id]

\* ------------------------------------------------- start/stop effect (113)

\* The dependency list without bpm, and without beatsPerMeasure.
DepsNoBpm(np, nb, nm) == <<np, nm>> # <<isPlaying, beatsPerMeasure>>
DepsNoMeter(np, nb, nm) == <<np, nb>> # <<isPlaying, bpm>>

\* The effect's dependency list [isPlaying, bpm, beatsPerMeasure]: the effect
\* re-runs when the render's values differ from the ones it last ran with.
DepsChanged(np, nb, nm) ==
    <<np, nb, nm>> # <<isPlaying, bpm, beatsPerMeasure>>

\* A cleanup that leaves the pending timeout alone.
CleanupKeepsTimer(st) == [st EXCEPT !.q = <<>>]

\* The cleanup the previous run of the effect returned.
Cleanup(st) ==
    [st EXCEPT !.ts = IF st.tid # Null THEN ClearTimeout(@, st.tid) ELSE @,
               !.q  = <<>>]

\* The effect body with the deadline not re-based at a start; with the
\* deadline re-based in both branches; with the stop branch leaving the
\* published beat alone.
PlayingEffectNoRebase(np, nb, nm, st) ==
    IF np
    THEN Scheduler(nb, nm, [st EXCEPT !.beat = 0, !.pub = 0])
    ELSE [st EXCEPT !.ts   = IF st.tid # Null THEN ClearTimeout(@, st.tid) ELSE @,
                    !.tid  = Null,
                    !.q    = <<>>,
                    !.pub  = 0,
                    !.beat = 0]
PlayingEffectRebaseAlways(np, nb, nm, st) ==
    IF np
    THEN Scheduler(nb, nm, [st EXCEPT !.next = now, !.beat = 0, !.pub = 0])
    ELSE [st EXCEPT !.ts   = IF st.tid # Null THEN ClearTimeout(@, st.tid) ELSE @,
                    !.tid  = Null,
                    !.q    = <<>>,
                    !.next = now,
                    !.pub  = 0,
                    !.beat = 0]
PlayingEffectKeepsBeat(np, nb, nm, st) ==
    IF np
    THEN Scheduler(nb, nm,
            [st EXCEPT !.next = IF audioContextRef THEN now ELSE @,
                       !.beat = 0,
                       !.pub  = 0])
    ELSE [st EXCEPT !.ts   = IF st.tid # Null THEN ClearTimeout(@, st.tid) ELSE @,
                    !.tid  = Null,
                    !.q    = <<>>,
                    !.beat = 0]

\* The effect body, run with the new render's isPlaying, bpm, beatsPerMeasure.
PlayingEffect(np, nb, nm, st) ==
    IF np
    THEN Scheduler(nb, nm,
            [st EXCEPT !.next = IF audioContextRef THEN now ELSE @,
                       !.beat = 0,
                       !.pub  = 0])
    ELSE [st EXCEPT !.ts   = IF st.tid # Null THEN ClearTimeout(@, st.tid) ELSE @,
                    !.tid  = Null,
                    !.q    = <<>>,
                    !.pub  = 0,
                    !.beat = 0]

\* The volume ref never written after mount.
VolumeRefStale(nv) == volumeRef

\* The sync effects: volumeRef.current = volume, voiceEnabledRef.current =
\* voiceEnabled, each run when its state value changed.
VolumeRefSync(nv) == IF nv # volume THEN nv ELSE volumeRef
\* The voice ref never written after mount.
VoiceEnabledRefStale(nve) == voiceEnabledRef
VoiceEnabledRefSync(nve) == IF nve # voiceEnabled THEN nve ELSE voiceEnabledRef

\* History, carried from one step to the next.
NoEffect == [effect |-> "none", wasPlaying |-> FALSE, cursor |-> -1, asked |-> 0]
Roll == IF emitted # <<>> THEN emitted[Len(emitted)] ELSE lastBeat
RollMeter == IF emitted # <<>> THEN -1 ELSE meterChangedAt
RollStopped == IF isPlaying THEN -1 ELSE stoppedAt

\* One React update: the handler's new state values are committed, the refs
\* of the sync effects follow, and the start/stop effect re-runs (cleanup
\* first) when one of its dependencies changed.  ncb is the currentBeat the
\* handler itself set (or the old one); asked is the tempo a handler asked
\* for when it lay outside the range, 0 otherwise.
Commit(np, nb, nm, nv, nve, ncb, asked) ==
    LET ran == DepsChanged(np, nb, nm)
        st0 == [next |-> nextNoteTimeRef, beat |-> currentBeatRef, pub |-> ncb,
                q |-> speechQueue, out |-> <<>>, ts |-> timers, tid |-> timerIdRef]
        st1 == IF ran THEN PlayingEffect(np, nb, nm, Cleanup(st0)) ELSE st0
    IN  /\ events < MaxEvents
        /\ events' = events + 1
        /\ isPlaying' = np
        /\ bpm' = nb
        /\ beatsPerMeasure' = nm
        /\ volume' = nv
        /\ voiceEnabled' = nve
        /\ volumeRef' = VolumeRefSync(nv)
        /\ voiceEnabledRef' = VoiceEnabledRefSync(nve)
        /\ nextNoteTimeRef' = st1.next
        /\ currentBeatRef' = st1.beat
        /\ currentBeat' = st1.pub
        /\ speechQueue' = st1.q
        /\ timers' = st1.ts
        /\ timerIdRef' = st1.tid
        /\ emitted' = st1.out
        /\ lastBeat' = IF ran THEN None ELSE Roll
        /\ step' = IF ran
                   THEN [effect |-> IF np THEN "start" ELSE "stop",
                         wasPlaying |-> isPlaying,
                         cursor |-> currentBeatRef,
                         asked |-> asked]
                   ELSE [NoEffect EXCEPT !.asked = asked]
        /\ prompt' = (ran \/ prompt)
        /\ meterChangedAt' = IF nm # beatsPerMeasure THEN currentBeatRef ELSE RollMeter
        /\ stoppedAt' = IF ran /\ isPlaying /\ ~np THEN currentBeatRef ELSE RollStopped
        /\ UNCHANGED <<audioContextRef, now>>

\* ------------------------------------------------------------------ state

\* The component after mount: the useState and useRef initial values, the
\* audio context made (ctx) or the ref still null (the case the guards of
\* playTick, scheduler and the start branch test for), the start/stop effect
\* run once with isPlaying false.
Mount(ctx) ==
    /\ bpm = InitBpm
    /\ isPlaying = FALSE
    /\ currentBeat = 0
    /\ beatsPerMeasure = InitBeatsPerMeasure
    /\ volume = InitVolume
    /\ voiceEnabled = FALSE
    /\ audioContextRef = ctx
    /\ nextNoteTimeRef = 0
    /\ timerIdRef = Null
    /\ currentBeatRef = 0
    /\ volumeRef = InitVolume
    /\ voiceEnabledRef = FALSE
    /\ timers = {}
    /\ speechQueue = <<>>
    /\ now = 0
    /\ emitted = <<>>
    /\ lastBeat = None
    /\ step = [effect |-> "stop", wasPlaying |-> FALSE, cursor |-> 0, asked |-> 0]
    /\ prompt = TRUE
    /\ meterChangedAt = -1
    /\ stoppedAt = -1
    /\ events = 0

\* The browser provides an audio context.
Init == Mount(TRUE)

\* The audio context ref may hold null.
InitMount == \E ctx \in BOOLEAN : Mount(ctx)

\* ---------------------------------------------------------------- handlers

\* handleBpmChange(newBpm)
handleBpmChange(newBpm) ==
    Commit(isPlaying, Clamp(newBpm), beatsPerMeasure, volume,
           voiceEnabled, currentBeat,
           IF newBpm \in MinBpm..MaxBpm THEN 0 ELSE newBpm)

\* onClick={() => handleBpmChange(bpm - 1)}
BpmMinus == handleBpmChange(bpm - 1)

\* onClick={() => handleBpmChange(bpm + 1)}
BpmPlus == handleBpmChange(bpm + 1)

\* onChange={(e) => handleBpmChange(parseInt(e.target.value))}
BpmSlider == \E v \in SliderValues : handleBpmChange(v)

\* onClick={() => handleBpmChange(presetBpm)}
BpmPreset == \E p \in PresetBpms : handleBpmChange(p)

\* onClick={() => { setBeatsPerMeasure(beats); setCurrentBeat(0); }}
SelectMeter ==
    \E beats \in Meters :
        Commit(isPlaying, bpm, beats, volume, voiceEnabled, 0, 0)

\* onChange={(e) => setVolume(parseFloat(e.target.value))}
ChangeVolume ==
    \E v \in VolumeValues :
        Commit(isPlaying, bpm, beatsPerMeasure, v, voiceEnabled,
               currentBeat, 0)

\* onClick={() => setVoiceEnabled(!voiceEnabled)}
ToggleVoice ==
    Commit(isPlaying, bpm, beatsPerMeasure, volume, ~voiceEnabled,
           currentBeat, 0)

\* onClick={() => setIsPlaying(!isPlaying)}
TogglePlay ==
    Commit(~isPlaying, bpm, beatsPerMeasure, volume, voiceEnabled,
           currentBeat, 0)

\* A pending timeout has come due and the host runs its scheduler closure.
TimerFire ==
    \E t \in timers :
        /\ t.due <= now
        /\ LET st == Scheduler(t.bpm, t.beatsPerMeasure,
                        [next |-> nextNoteTimeRef, beat |-> currentBeatRef,
                         pub |-> currentBeat, q |-> speechQueue, out |-> <<>>,
                         ts |-> timers \ {t}, tid |-> timerIdRef])
           IN  /\ nextNoteTimeRef' = st.next
               /\ currentBeatRef' = st.beat
               /\ currentBeat' = st.pub
               /\ speechQueue' = st.q
               /\ timers' = st.ts
               /\ timerIdRef' = st.tid
               /\ emitted' = st.out
        /\ lastBeat' = Roll
        /\ step' = NoEffect
        /\ prompt' = (prompt /\ now - t.due < scheduleAheadTime)
        /\ meterChangedAt' = RollMeter
        /\ stoppedAt' = RollStopped
        /\ UNCHANGED <<bpm, isPlaying, beatsPerMeasure, volume, voiceEnabled,
                       audioContextRef, volumeRef, voiceEnabledRef, now, events>>

\* The speech backend finishes the utterance at the head of its queue.
SpeechEnd ==
    /\ speechQueue # <<>>
    /\ speechQueue' = Tail(speechQueue)
    /\ emitted' = <<>>
    /\ lastBeat' = Roll
    /\ step' = NoEffect
    /\ meterChangedAt' = RollMeter
    /\ stoppedAt' = RollStopped
    /\ UNCHANGED <<bpm, isPlaying, currentBeat, beatsPerMeasure, volume,
                   voiceEnabled, audioContextRef, nextNoteTimeRef, timerIdRef,
                   currentBeatRef, volumeRef, voiceEnabledRef, timers, now,
                   prompt, events>>

\* The clock runs on by d ms with no callback of the component running.  A
\* timeout that is due runs before the clock moves again, so a poll is late
\* by d - PollMs for the one jump d that carried the clock past its due time.
Advance ==
    \E d \in Delays :
        /\ \A t \in timers : t.due > now
        /\ now + d <= MaxTime
        /\ now' = now + d
        /\ emitted' = <<>>
        /\ lastBeat' = Roll
        /\ step' = NoEffect
        /\ meterChangedAt' = RollMeter
        /\ stoppedAt' = RollStopped
        /\ UNCHANGED <<bpm, isPlaying, currentBeat, beatsPerMeasure, volume,
                       voiceEnabled, audioContextRef, nextNoteTimeRef, timerIdRef,
                       currentBeatRef, volumeRef, voiceEnabledRef, timers,
                       speechQueue, prompt, events>>

Next ==
    \/ TogglePlay
    \/ BpmMinus
    \/ BpmPlus
    \/ BpmSlider
    \/ BpmPreset
    \/ SelectMeter
    \/ ChangeVolume
    \/ ToggleVoice
    \/ TimerFire
    \/ SpeechEnd
    \/ Advance

Spec == Init /\ [][Next]_vars

\* The same component, with or without an audio context.
SpecMount == InitMount /\ [][Next]_vars

\* ------------------------------------------------------------------ claims

\* The beats of the running session in order: the last one emitted before
\* this step, then this step's.
Chain == (IF lastBeat = None THEN <<>> ELSE <<lastBeat>>) \o emitted

\* C1: within one running session the emitted beats carry the indices
\* 0, 1, ..., m-1, 0, ... in order, starting at 0, and consecutive beats'
\* deadlines are exactly one interval 60/t apart.
C1_BeatTrain ==
    /\ (lastBeat = None /\ emitted # <<>>) => emitted[1].index = 0
    /\ \A i \in 1..Len(Chain) : Chain[i].index \in 0..(beatsPerMeasure - 1)
    /\ \A i \in 1..(Len(Chain) - 1) :
          /\ Chain[i + 1].index = (Chain[i].index + 1) % beatsPerMeasure
          /\ Chain[i + 1].deadline = Chain[i].deadline + (60000 \div bpm)

\* The last beat of a measure followed by beat 0 of the next.
C1_Wrap ==
    \E i \in 1..(Len(Chain) - 1) :
        /\ Chain[i].index = beatsPerMeasure - 1
        /\ Chain[i + 1].index = 0

C3_NoStaleTimer ==
    /\ \A t \in timers : isPlaying /\ t.id = timerIdRef
    /\ ~isPlaying => emitted = <<>>

\* Stopped while a beat was still ahead and the loop's poll was armed.
C3_StoppedMidBeat ==
    /\ step.effect = "stop"
    /\ step.wasPlaying
    /\ step.cursor >= 1
    /\ nextNoteTimeRef > now
    /\ timers = {}

\* C4: every emitted beat is accented exactly when its index is 0: the flag
\* handed to the pulse emitter, the pulse's frequency and the raised pitch of
\* its announcement.
C4_Accent ==
    \A i \in 1..Len(emitted) :
        LET e == emitted[i]
        IN  /\ e.accent = (e.index = 0)
            /\ (e.pulse.freq = AccentFreq) = (e.index = 0)
            /\ (e.pulse.freq = PlainFreq) = (e.index # 0)
            /\ e.speech # NoSpeech
                  => /\ (e.speech.pitch = AccentPitch) = (e.index = 0)
                     /\ (e.speech.pitch = PlainPitch) = (e.index # 0)

\* An accented beat followed by a plain one that was announced.
C4_PlainAfterAccent ==
    /\ Len(Chain) >= 2
    /\ Chain[1].accent
    /\ ~Chain[2].accent
    /\ Chain[2].speech # NoSpeech

\* C5: the first beat emitted after a change of the meter has index 0 and
\* is accented, whether the meter was changed running or stopped.
C5_MeterChangeResets ==
    (meterChangedAt >= 0 /\ emitted # <<>>)
        => emitted[1].index = 0 /\ emitted[1].accent

\* The meter was changed with the cursor at index 2 or later and a beat
\* followed.
C5_ChangedMidMeasure ==
    /\ meterChangedAt >= 2
    /\ emitted # <<>>

\* C6: every step that takes isPlaying from false to true emits beat 0,
\* accented, in that step, with the clock value as its deadline, and leaves
\* the cursor at index 1 one interval later.
C6_StartResets ==
    [][(~isPlaying /\ isPlaying')
          => /\ Len(emitted') = 1
             /\ emitted'[1].index = 0
             /\ emitted'[1].accent
             /\ emitted'[1].deadline = now
             /\ emitted'[1].at = now
             /\ currentBeat' = 0
             /\ currentBeatRef' = 1
             /\ nextNoteTimeRef' = now + (60000 \div bpm)]_vars

\* A start after a session that was stopped with its cursor at 2 or later.
C6_StartAfterStop ==
    /\ step.effect = "start"
    /\ ~step.wasPlaying
    /\ stoppedAt >= 2
    /\ emitted # <<>>

\* C7: while stopped no beat fires, no poll timer is pending, no
\* announcement is queued and the published beat index is 0.
C7_StoppedIsQuiet ==
    ~isPlaying
        => /\ emitted = <<>>
           /\ timers = {}
           /\ timerIdRef = Null
           /\ speechQueue = <<>>
           /\ currentBeat = 0

\* Stopped after a session that had published a beat past 0, with the tempo
\* then changed while stopped.
C7_ChangedWhileStopped ==
    /\ ~isPlaying
    /\ stoppedAt >= 2
    /\ step.effect = "stop"
    /\ ~step.wasPlaying

\* C8: in a session whose polls all ran less than scheduleAheadTime after
\* their due time, no beat is emitted later than scheduleAheadTime after its
\* deadline and none is skipped: each emitted deadline is one interval after
\* the one before.
C8_NoDrift ==
    prompt
        => /\ \A i \in 1..Len(emitted) :
                 emitted[i].at - emitted[i].deadline <= scheduleAheadTime
           /\ \A i \in 1..(Len(Chain) - 1) :
                 Chain[i + 1].deadline - Chain[i].deadline = 60000 \div bpm

\* A beat emitted by a poll that ran late, in a session whose polls were all
\* less than scheduleAheadTime late.
C8_LatePoll ==
    /\ prompt
    /\ lastBeat # None
    /\ \E i \in 1..Len(emitted) :
          emitted[i].at - (emitted[i].deadline - scheduleAheadTime) > PollMs

\* C9: a run of the effect's stop branch while already stopped changes
\* nothing: no beat, the same speech queue, timers, cursor and published beat.
C9_StopIdempotent ==
    [][(~isPlaying /\ ~isPlaying')
          => /\ emitted' = <<>>
             /\ speechQueue' = speechQueue
             /\ timers' = timers
             /\ timerIdRef' = timerIdRef
             /\ currentBeatRef' = currentBeatRef
             /\ nextNoteTimeRef' = nextNoteTimeRef
             /\ currentBeat' = currentBeat]_vars

\* The stop branch ran while stopped, after a session that had run.
C9_StopWhileStopped ==
    /\ step.effect = "stop"
    /\ ~step.wasPlaying
    /\ stoppedAt >= 1
    /\ nextNoteTimeRef > 0

\* C10: an announcement is requested for an emitted beat exactly when
\* voiceEnabled is true at the emission, and a change of voiceEnabled emits
\* nothing and leaves the queued announcements alone.
C10_VoiceFollowsSwitch ==
    [][/\ \A i \in 1..Len(emitted') :
             (emitted'[i].speech # NoSpeech) = voiceEnabled'
       /\ voiceEnabled' # voiceEnabled
             => emitted' = <<>> /\ speechQueue' = speechQueue]_vars

\* Voice was switched off between an announced beat and the next one, which
\* came unannounced while the earlier announcement was still queued.
C10_MutedBetweenBeats ==
    /\ ~voiceEnabled
    /\ lastBeat # None
    /\ lastBeat.speech # NoSpeech
    /\ emitted # <<>>
    /\ emitted[1].speech = NoSpeech
    /\ speechQueue # <<>>

C12_TempoAndMeterInRange ==
    /\ bpm \in MinBpm..MaxBpm
    /\ beatsPerMeasure \in Meters
    /\ \A t \in timers :
          /\ t.bpm \in MinBpm..MaxBpm
          /\ t.beatsPerMeasure \in Meters

\* A decrement at the lower limit asked for 39 while the loop was running.
C12_DecrementAtMinimum ==
    /\ step.asked = MinBpm - 1
    /\ bpm = MinBpm
    /\ isPlaying
    /\ \E t \in timers : t.bpm = MinBpm

\* C13: however late a poll runs, when it finishes no beat of the session is
\* left with its deadline inside the look-ahead window of that poll: the
\* beats a step emits are the session's next deadlines, each due in that
\* step's window, one interval apart with consecutive indices (none lost,
\* none repeated, several in one step when several are due), and the cursor
\* stands one interval after the last one emitted.
C13_CatchUp ==
    /\ \A t \in timers :
          nextNoteTimeRef >= (t.due - PollMs) + scheduleAheadTime
    /\ \A i \in 1..Len(emitted) :
          /\ emitted[i].at = now
          /\ emitted[i].deadline < now + scheduleAheadTime
    /\ (lastBeat = None /\ emitted # <<>>) => emitted[1].deadline = now
    /\ \A i \in 1..(Len(Chain) - 1) :
          /\ Chain[i + 1].deadline = Chain[i].deadline + (60000 \div bpm)
          /\ Chain[i + 1].index = (Chain[i].index + 1) % beatsPerMeasure
    /\ emitted # <<>> =>
          /\ nextNoteTimeRef =
                emitted[Len(emitted)].deadline + (60000 \div bpm)
          /\ currentBeatRef =
                (emitted[Len(emitted)].index + 1) % beatsPerMeasure
          /\ nextNoteTimeRef >= now + scheduleAheadTime

\* One late poll emitted two beats.
C13_TwoBeatsInOneTick ==
    /\ Len(emitted) >= 2
    /\ step.effect = "none"
    /\ lastBeat # None

\* C14 (as claimed): a beat whose deadline lies more than the look-ahead in
\* the past when the poll runs makes no pulse and no announcement, while the
\* cursor still moves past it.
C14_LateBeatIsSilent ==
    \A i \in 1..Len(emitted) :
        (emitted[i].at - emitted[i].deadline > scheduleAheadTime)
            => /\ emitted[i].pulse = NoPulse
               /\ emitted[i].speech = NoSpeech
               /\ nextNoteTimeRef > emitted[i].deadline

\* The time of the scheduler call that armed the pending poll t.
TickTime(t) == t.due - PollMs

\* C15 (as claimed): a beat whose deadline is exactly the poll's time plus
\* the look-ahead is emitted by that poll, so when a poll returns the next
\* deadline is strictly later than its time plus the look-ahead.
C15_WindowIncludesEdge ==
    \A t \in timers : nextNoteTimeRef > TickTime(t) + scheduleAheadTime

\* C15 (amended): a poll emits only beats whose deadline is strictly before
\* its time plus the look-ahead; a beat due exactly at that edge is left for
\* a later poll, so when a poll returns the next deadline is at or after its
\* time plus the look-ahead.
C15_WindowExcludesEdge ==
    /\ \A i \in 1..Len(emitted) :
          emitted[i].deadline < emitted[i].at + scheduleAheadTime
    /\ \A t \in timers :
          /\ nextNoteTimeRef >= TickTime(t) + scheduleAheadTime
          /\ (TickTime(t) = now
                /\ nextNoteTimeRef = now + scheduleAheadTime)
                => \A i \in 1..Len(emitted) :
                      emitted[i].deadline < nextNoteTimeRef

\* A poll ran with the next deadline exactly at the edge of its window and
\* emitted nothing.
C15_BeatAtEdgeLeft ==
    /\ \E t \in timers :
          /\ TickTime(t) = now
          /\ nextNoteTimeRef = now + scheduleAheadTime
    /\ step.effect = "none"
    /\ lastBeat # None
    /\ emitted = <<>>

\* C16: every advance of the deadline is by 60/t for the tempo t in effect
\* when it is made: the pending poll always carries the current tempo, never
\* one from before a tempo change, and the cursor stands whole intervals of
\* the current tempo after each beat the session emitted.
C16_IntervalFollowsTempo ==
    /\ \A t \in timers : t.bpm = bpm
    /\ \A i \in 1..Len(emitted) :
          nextNoteTimeRef =
              emitted[i].deadline + (Len(emitted) - i + 1) * SecondsPerBeat(bpm)
    /\ (lastBeat # None /\ emitted = <<>>)
          => nextNoteTimeRef = lastBeat.deadline + SecondsPerBeat(bpm)

\* The tempo was changed while running, past beat 0: the deadline was
\* advanced by the new interval and the pending poll carries the new tempo.
C16_TempoChangedWhileRunning ==
    /\ step.effect = "start"
    /\ step.wasPlaying
    /\ step.cursor >= 1
    /\ meterChangedAt = -1
    /\ bpm # InitBpm
    /\ emitted # <<>>
    /\ nextNoteTimeRef = now + SecondsPerBeat(bpm)
    /\ \E t \in timers : t.bpm = bpm

\* C17: a change of the volume or of the voice switch, running or stopped,
\* leaves the cursor, the pending poll, the running state, the published
\* beat and the queued announcements as they were and emits nothing; every
\* pulse and announcement emitted afterwards carries the volume then set.
C17_VolumeVoiceFrame ==
    [][/\ (volume' # volume \/ voiceEnabled' # voiceEnabled)
            => /\ UNCHANGED <<nextNoteTimeRef, currentBeatRef, timers,
                             timerIdRef, isPlaying, currentBeat, speechQueue,
                             bpm, beatsPerMeasure>>
               /\ emitted' = <<>>
       /\ \A i \in 1..Len(emitted') :
             /\ emitted'[i].pulse.gain = volume'
             /\ emitted'[i].speech # NoSpeech
                   => emitted'[i].speech.volume = volume']_vars

\* The volume was changed between two beats of a running session with the
\* voice on: the earlier beat carried the old volume, this one the new.
C17_VolumeChangedBetweenBeats ==
    /\ isPlaying
    /\ volume # InitVolume
    /\ lastBeat # None
    /\ lastBeat.pulse.gain = InitVolume
    /\ emitted # <<>>
    /\ emitted[1].pulse.gain = volume
    /\ emitted[1].speech # NoSpeech
    /\ emitted[1].speech.volume = volume

\* C18: in every reachable state the cursor index and the published beat
\* lie in 0 .. meter - 1, also right after the meter was lowered below the
\* index the cursor stood at.
C18_IndexWithinMeter ==
    /\ currentBeatRef \in 0..(beatsPerMeasure - 1)
    /\ currentBeat \in 0..(beatsPerMeasure - 1)
    /\ \A i \in 1..Len(emitted) : emitted[i].index \in 0..(beatsPerMeasure - 1)

\* The meter was lowered, while running, to a value at or below the index
\* the cursor stood at.
C18_MeterLoweredBelowCursor ==
    /\ isPlaying
    /\ meterChangedAt >= beatsPerMeasure
    /\ step.effect = "start"
    /\ step.wasPlaying

\* C19: at most one poll is pending at any time, and it is the one
\* timerIdRef names: a restart cancels the previous loop's poll before the
\* new loop arms its own, so the beats of a session come from one loop and
\* no deadline is emitted twice.
C19_OnePendingPoll ==
    /\ Cardinality(timers) <= 1
    /\ \A t \in timers : t.id = timerIdRef /\ isPlaying
    /\ \A i \in 1..(Len(Chain) - 1) : Chain[i].deadline < Chain[i + 1].deadline

\* A restart while a poll of the previous loop was pending.
C19_RestartWhilePollPending ==
    /\ step.effect = "start"
    /\ step.wasPlaying
    /\ timerIdRef # Null
    /\ Cardinality(timers) = 1

====
